---- MODULE Spec2Model ----
(***************************************************************************)
(* Model of the remote store client (B2Service, second revision in         *)
(* src/src/services/b2.service.ts, lines 443-1047): authenticate,          *)
(* listExistingFiles, fileExists and uploadFile with its retry loop,       *)
(* single-shot and large-file protocols.  Every HTTP request is one step;  *)
(* the remote store answers each request with any of the outcomes the      *)
(* client distinguishes.  Specification Spec.                              *)
(*                                                                         *)
(* The backup orchestrator (BackupService, second revision in              *)
(* src/src/services/backup.service.ts, lines 172-347) runs over the same   *)
(* bucket in SpecBackup: a run dumps, diffs the dump against the bucket,   *)
(* converts each new file and uploads its chunks.                          *)
(*                                                                         *)
(* The conversion itself (src/src/utils/bson.util.ts) is SpecBson: the     *)
(* read stream hands the file to BsonToJsonlTransform in buffers of any    *)
(* size, which pushes one line per document to ChunkingTransform, which    *)
(* writes the chunk files; convertBsonToJsonlChunks wires the three.       *)
(***************************************************************************)
EXTENDS Integers, Sequences, FiniteSets, TLC

\* ---------------------------------------------------------------- bounds
MaxRetriesBound == 2      \* maxRetries is drawn from 0..MaxRetriesBound
MaxFileCount == 2         \* page size of the listing (1000 in the code)

MaxChunks == 2            \* most chunks the conversion of one file yields
MaxRuns == 2              \* backup runs in one behaviour
MaxRecords == 2           \* documents in an input file

\* ------------------------------------------------------ program constants
CHUNK_SIZE == 104857600
MiB == 1048576

Null == "null"
\* A name that is null (or empty: both are falsy) and the absent file.
NoName == <<>>
NoId == 0
NoFile == [fileName |-> NoName, fileId |-> NoId, contentLength |-> 0]

\* Object names are sequences of character codes; Slash is "/".
Slash == 0
Names == { <<1>>, <<1, 0, 1>>, <<1, 1>>, <<2>> }
UploadNames == { <<1>>, <<1, 0, 1>> }
Prefixes == Names \cup { <<>> }
Tokens == { "tok1", "tok2" }
BucketIds == { "", "bucket" }
FileSizes == { CHUNK_SIZE, CHUNK_SIZE + 1, 2 * CHUNK_SIZE, 250 * MiB }

\* What a request can come back with: success, no response at all, or an
\* HTTP error status (400 carries a code).
Failures == { "network", "s400bad", "s400expired", "s401", "s429", "s500" }

VARIABLES
  authToken, apiUrl, downloadUrl, bucketId, maxRetries,  \* B2Service fields
  remote,            \* the bucket: name -> metadata of the stored object
  pc,                \* position of the call in progress
  fileName, fileSize,       \* arguments of uploadFile (size is what stat returns)
  retries, lastError, err,  \* locals of the retry loop; err is the caught error
  prefix, files, nextFileName,          \* locals of listExistingFiles
  fileId, partNumber, partSha1Array,    \* locals of the large-file branch
  result,            \* how the call ended
  obs,               \* what the call in progress has done so far
  reqs,              \* requests issued by the attempt in progress
  starts, cursors,   \* startFileName of each list request, cursor of each response
  parts,             \* parts accepted by the remote in the current session
  finishReq,         \* body of the last b2_finish_large_file request
  lastResponse,      \* data of the last successful single-shot upload response
  existed,           \* remote object of that name when uploadFile was called
  \* BackupService
  dump,              \* .bson files a dump holds: name -> chunks its conversion yields
  bpc,               \* position of the run in progress
  localFiles, newFiles,             \* locals of getNewFiles / performIncrementalBackup
  fileIdx, chunkPaths, chunkIdx,    \* the two for-of loops of a run
  runs,              \* runs started so far
  outcome,           \* how the last run ended
  uploadCalls,       \* remote paths uploadFile was called with in this run
  dumpDirs,          \* dump directories under dumpPath
  halted,            \* base names a failed run left with some chunks uploaded, not all
  contents,          \* remote path -> the run whose dump the object's content is from
  \* convertBsonToJsonlChunks
  source,            \* the input file: its documents, what follows them, and what that is
  chunkSize,         \* the chunkSize option
  offset, rstate,    \* bytes the read stream has handed on; its state
  buffer, position,  \* BsonToJsonlTransform fields
  tstate, terror,    \* state of the transform and the error it ended with
  pushed,            \* every line the transform has pushed, in order
  delivered,         \* how many of them ChunkingTransform has consumed
  currentChunk, currentSize, currentStream,  \* ChunkingTransform fields
  chunkFilePaths,    \* ChunkingTransform.chunkPaths
  chunkFiles,        \* bytes written to each chunk file
  cstate,            \* state of ChunkingTransform
  promise,           \* the promise convertBsonToJsonlChunks returned
  escaped,           \* an 'error' event no listener took
  synced,            \* bytes of each chunk file its write stream has written out
  \* index.ts
  mpc,               \* position of main()
  jobs,              \* every performBackup call so far: who made it, how far it is
  exitCode,          \* status the process exited with
  ticks,             \* times the interval timer has fired
  tempDir,           \* calls whose chunk files lie in dumpPath/temp_jsonl
  \* rotateBackups
  rpc,               \* position of the call
  dir,               \* entries of the directory, in readdir order
  policy,            \* the policy argument
  fileStats,         \* the sorted .gz entries
  unlinked,          \* entries unlink was called with, in order
  onDisk,            \* entries still in the directory
  rotResult,         \* how the call ended
  \* uploadLargeFile, the bytes of its parts
  fileBytes,         \* content of the file being uploaded
  partSize,          \* CHUNK_SIZE
  highWaterMark,     \* most bytes one 'data' event of the read stream carries
  partIdx,           \* partNumber
  sentParts,         \* body and X-Bz-Content-Sha1 of each uploadPart request
  \* the backoff of uploadFile
  retryDelay,        \* B2Service.retryDelay
  sleeps             \* the sleeps of one call: retries, Math.random(), the delay

b2Vars == << authToken, apiUrl, downloadUrl, bucketId, maxRetries, pc,
             fileName, fileSize, retries, lastError, err, prefix, files,
             nextFileName, fileId, partNumber, partSha1Array, result, obs, reqs,
             starts, cursors, parts, finishReq, lastResponse, existed >>

backupVars == << dump, dumpDirs, bpc, localFiles, newFiles, fileIdx, chunkPaths, chunkIdx,
                 runs, outcome, uploadCalls, halted, contents >>

\* What the client's own steps leave alone.
bsonVars == << source, chunkSize, offset, rstate, buffer, position, tstate, terror,
               pushed, delivered, currentChunk, currentSize, currentStream,
               chunkFilePaths, chunkFiles, cstate, promise, escaped, synced >>

mainVars == << mpc, jobs, exitCode, ticks, tempDir >>

rotVars == << rpc, dir, policy, fileStats, unlinked, onDisk, rotResult >>

partVars == << fileBytes, partSize, highWaterMark, partIdx, sentParts >>

backoffVars == << retryDelay, sleeps >>

extraVars == << mainVars, rotVars, partVars, backoffVars >>

otherVars == << backupVars, bsonVars, extraVars >>

vars == << b2Vars, remote, backupVars, bsonVars, extraVars >>

clientVars == << authToken, apiUrl, downloadUrl, bucketId, maxRetries >>
listVars == << prefix, files, nextFileName, starts, cursors >>
largeVars == << fileId, partNumber, partSha1Array, parts, finishReq >>
loopVars == << retries, lastError, err >>
callVars == << fileName, fileSize, existed >>

\* ------------------------------------------------------------ remote store
IsPrefix(p, n) == Len(p) <= Len(n) /\ SubSeq(n, 1, Len(p)) = p

RECURSIVE LexLess(_, _)
LexLess(a, b) ==
  IF a = <<>> THEN b # <<>>
  ELSE IF b = <<>> THEN FALSE
  ELSE IF a[1] # b[1] THEN a[1] < b[1]
  ELSE LexLess(Tail(a), Tail(b))

RECURSIVE SortNames(_)
SortNames(S) ==
  IF S = {} THEN <<>>
  ELSE LET m == CHOOSE x \in S : \A y \in S : x = y \/ LexLess(x, y)
       IN <<m>> \o SortNames(S \ {m})

Stored(store) == { n \in DOMAIN store : store[n] # NoFile }

\* With delimiter "/" a name that has a slash after the prefix is listed as
\* its folder, once.
EntryName(n, p) ==
  LET idx == { i \in (Len(p) + 1)..Len(n) : n[i] = Slash }
  IN IF idx = {} THEN n
     ELSE SubSeq(n, 1, CHOOSE i \in idx : \A j \in idx : i <= j)

Entry(store, e) ==
  IF e \in DOMAIN store /\ store[e] # NoFile /\ e[Len(e)] # Slash
  THEN store[e]
  ELSE [fileName |-> e, fileId |-> NoId, contentLength |-> 0]

Listing(store, p) ==
  SortNames({ EntryName(n, p) : n \in { m \in Stored(store) : IsPrefix(p, m) } })

\* One b2_list_file_names response: at most maxFileCount entries at or after
\* startFileName, and the name to continue from, or null.
ListFileNames(store, p, startFileName, maxFileCount) ==
  LET all == Listing(store, p)
      from == IF startFileName = NoName THEN 1
              ELSE Cardinality({ i \in 1..Len(all) : LexLess(all[i], startFileName) }) + 1
      upto == IF from + maxFileCount - 1 < Len(all) THEN from + maxFileCount - 1
              ELSE Len(all)
  IN [ files |-> [ i \in 1..(upto - from + 1) |-> Entry(store, all[from + i - 1]) ],
       nextFileName |-> IF upto < Len(all) THEN all[upto + 1] ELSE NoName ]

\* ------------------------------------------------------------ the client
\* A check of the token alone.
IsAuthenticatedTokenOnly == authToken # Null

IsAuthenticated ==
  authToken # Null /\ apiUrl # Null /\ downloadUrl # Null /\ bucketId # ""

\* A loop that never asks for a second page.
HasMoreNever(next) == FALSE

\* do { ... } while (nextFileName)
HasMore(next) == next # NoName

\* A scan that misses the first entry.
SomeNamedSkipFirst(fs, name) == \E i \in 2..Len(fs) : fs[i].fileName = name

\* files.some(file => file.fileName === fileName)
SomeNamed(fs, name) == \E i \in 1..Len(fs) : fs[i].fileName = name

\* files.find(file => file.fileName === fileName)
FindNamed(fs, name) ==
  IF SomeNamed(fs, name)
  THEN fs[CHOOSE i \in 1..Len(fs) :
            fs[i].fileName = name /\ \A j \in 1..(i - 1) : fs[j].fileName # name]
  ELSE NoFile

\* A threshold that leaves out the file of exactly CHUNK_SIZE bytes.
UseSimpleUploadBelow(size) == size < CHUNK_SIZE

\* if (fileSize <= this.CHUNK_SIZE), line 748
UseSimpleUpload(size) == size <= CHUNK_SIZE

\* Math.floor in place of Math.ceil.
TotalPartsFloor(size) == size \div CHUNK_SIZE

\* Math.ceil(fileSize / CHUNK_SIZE)
TotalParts(size) == (size + CHUNK_SIZE - 1) \div CHUNK_SIZE

PartStart(pn) == (pn - 1) * CHUNK_SIZE

PartEnd(pn, size) ==
  IF PartStart(pn) + CHUNK_SIZE < size THEN PartStart(pn) + CHUNK_SIZE ELSE size

\* Buffer.alloc(end - start), named by the byte range it is filled from
Chunk(pn, size) == [start |-> PartStart(pn), length |-> PartEnd(pn, size) - PartStart(pn)]

Sha1(chunk) == [sha1of |-> chunk]

NoSha == [sha1of |-> [start |-> 0, length |-> 0]]

\* partSha1Array[partNumber] = contentSha1: the index not brought to base 0.
PutShaShifted(arr, pn, sha) ==
  LET len == IF pn + 1 > Len(arr) THEN pn + 1 ELSE Len(arr)
  IN [ i \in 1..len |-> IF i = pn + 1 THEN sha ELSE IF i <= Len(arr) THEN arr[i] ELSE NoSha ]

\* partSha1Array[partNumber - 1] = contentSha1
PutSha(arr, pn, sha) ==
  LET len == IF pn > Len(arr) THEN pn ELSE Len(arr)
  IN [ i \in 1..len |-> IF i = pn THEN sha ELSE IF i <= Len(arr) THEN arr[i] ELSE NoSha ]

\* A loop that resumes after the highest part the remote has accepted.
FirstPartResumed == obs.maxPart + 1

\* for (let partNumber = 1; ...; partNumber++)
FirstPartNumber == 1

NextPartNumber(pn) == pn + 1

\* Only status 401 re-authenticates.
NeedsReauthOnly401(e) == e = "s401"

\* Every failure is retried.
ShouldRetryAlways(e) == TRUE

\* handleUploadError: which failures re-authenticate, which abort
NeedsReauth(e) == e \in { "s400expired", "s401" }

ShouldRetry(e) == e # "s400bad"

\* while (retries <= this.maxRetries)
LoopCondition(r) == r <= maxRetries

\* The comparison the wrong way round.
CanRetryInverted(r) == r > maxRetries

\* if (retries < this.maxRetries)
CanRetry(r) == r < maxRetries

\* What the call in progress has done so far: list and authorize requests,
\* authorize requests that failed, attempts begun and failed, backoff sleeps,
\* sessions started and finished, the highest part number the remote has
\* accepted, and the times the remote has stored the object.
NoObs == [ list |-> 0, auth |-> 0, authFails |-> 0, attempts |-> 0, fails |-> 0,
           sleeps |-> 0, sessions |-> 0, finished |-> 0, maxPart |-> 0, accepted |-> 0 ]

\* Requests the current attempt has issued, by endpoint.
NoReqs == [ uploadUrl |-> 0, upload |-> 0, start |-> 0, partUrl |-> 0, part |-> 0,
            finish |-> 0 ]

Bump(f) == [obs EXCEPT ![f] = @ + 1]

Sent(f) == [reqs EXCEPT ![f] = @ + 1]

\* How a call ended: resolved with a file (uploadFile) or a list of files
\* (listExistingFiles), or rejected with an error and its cause.
NoResult == [op |-> "none", status |-> "none", file |-> NoFile, files |-> <<>>,
             error |-> Null, cause |-> Null]
Resolved(o, f, fs) == [op |-> o, status |-> "ok", file |-> f, files |-> fs,
                       error |-> Null, cause |-> Null]
Rejected(o, e, c) == [op |-> o, status |-> "error", file |-> NoFile, files |-> <<>>,
                      error |-> e, cause |-> c]

\* Identifier the remote gives to the object or session it creates in the
\* k-th attempt of the call; objects present from the start carry ids below 10.
NewFileId(k) == 10 + k

InitialFile(n) ==
  [fileName |-> n, fileId |-> 2 * Len(n) + n[Len(n)], contentLength |-> 1000]

\* A client just constructed, lines 443-479.
ClientInit ==
  /\ authToken = Null /\ apiUrl = Null /\ downloadUrl = Null
  /\ bucketId \in BucketIds
  /\ maxRetries \in 0..MaxRetriesBound
  /\ pc = "idle"
  /\ fileName = NoName /\ fileSize = 0
  /\ retries = 0 /\ lastError = Null /\ err = Null
  /\ prefix = NoName /\ files = <<>> /\ nextFileName = NoName
  /\ fileId = NoId /\ partNumber = 0 /\ partSha1Array = <<>>
  /\ result = NoResult
  /\ obs = NoObs /\ reqs = NoReqs
  /\ starts = <<>> /\ cursors = <<>>
  /\ parts = <<>> /\ finishReq = [fileId |-> NoId, partSha1Array |-> <<>>]
  /\ lastResponse = NoFile
  /\ existed = NoFile

NoOutcome == [status |-> "none", error |-> Null, cause |-> Null, at |-> 0]

\* No run has started.
BackupIdle ==
  /\ bpc = "idle" /\ runs = 0 /\ dumpDirs = 0
  /\ localFiles = <<>> /\ newFiles = <<>>
  /\ fileIdx = 0 /\ chunkPaths = <<>> /\ chunkIdx = 0
  /\ outcome = NoOutcome /\ uploadCalls = <<>> /\ halted = {}

NoSource == [records |-> <<>>, tail |-> <<>>, kind |-> "none"]

\* No conversion has started.
BsonIdle ==
  /\ source = NoSource /\ chunkSize = 0
  /\ offset = 0 /\ rstate = "open"
  /\ buffer = <<>> /\ position = 0 /\ tstate = "open" /\ terror = Null
  /\ pushed = <<>> /\ delivered = 0
  /\ currentChunk = 0 /\ currentSize = 0 /\ currentStream = 0 /\ chunkFilePaths = <<>>
  /\ chunkFiles = <<>> /\ cstate = "open"
  /\ promise = "pending" /\ escaped = Null
  /\ synced = <<>>

NoExit == 0 - 1

\* main() has not been called.
MainIdle ==
  /\ mpc = "off" /\ jobs = <<>> /\ exitCode = NoExit /\ ticks = 0 /\ tempDir = {}

NoPolicy == [maxFiles |-> 0, maxAgeDays |-> 0]

\* rotateBackups has not been called.
RotIdle ==
  /\ rpc = "idle" /\ dir = <<>> /\ policy = NoPolicy /\ fileStats = <<>>
  /\ unlinked = <<>> /\ onDisk = {} /\ rotResult = Null

\* No large file is being read.
PartIdle ==
  /\ fileBytes = <<>> /\ partSize = 0 /\ highWaterMark = 0 /\ partIdx = 0
  /\ sentParts = <<>>

\* retryDelay: number = 1000, the constructor's default, line 460
DefaultRetryDelay == 1000

\* No upload is backing off.
BackoffIdle ==
  /\ retryDelay = DefaultRetryDelay /\ sleeps = <<>>

ExtraIdle == MainIdle /\ RotIdle /\ PartIdle /\ BackoffIdle

Init ==
  /\ ClientInit
  /\ BsonIdle
  /\ ExtraIdle
  /\ \E present \in SUBSET Names :
       remote = [ n \in Names |-> IF n \in present THEN InitialFile(n) ELSE NoFile ]
  /\ BackupIdle
  /\ dump = <<>> /\ contents = <<>>

\* ------------------------------------------------------------ authenticate
\* authenticate(), lines 481-529: one b2_authorize_account request; the
\* fields are assigned only from a response.
Authenticate ==
  /\ UNCHANGED otherVars
  /\ pc = "idle"
  /\ \/ \E tok \in Tokens :
          /\ authToken' = tok /\ apiUrl' = "apiUrl" /\ downloadUrl' = "downloadUrl"
          /\ result' = Resolved("authenticate", NoFile, <<>>)
     \/ /\ UNCHANGED << authToken, apiUrl, downloadUrl >>
        /\ result' = Rejected("authenticate", "B2Error", "network")
  /\ obs' = [NoObs EXCEPT !.auth = 1] /\ reqs' = NoReqs
  /\ UNCHANGED << bucketId, maxRetries, remote, pc, callVars, loopVars, listVars,
                  largeVars, lastResponse >>

\* ------------------------------------------------------ listExistingFiles
\* Entry of listExistingFiles(prefix), lines 888-894.
ListExistingFiles ==
  /\ UNCHANGED otherVars
  /\ pc = "idle"
  /\ \E p \in Prefixes :
       /\ prefix' = p
       /\ fileName' = p
  /\ existed' = NoFile /\ fileSize' = 0
  /\ files' = <<>> /\ nextFileName' = NoName /\ starts' = <<>> /\ cursors' = <<>>
  /\ obs' = NoObs /\ reqs' = NoReqs
  /\ IF IsAuthenticated
     THEN pc' = "list" /\ result' = NoResult
     ELSE pc' = "done" /\ result' = Rejected("list", "NotAuthenticated", Null)
  /\ UNCHANGED << clientVars, remote, loopVars, largeVars, lastResponse >>

\* The first request of a listing starts at null, each later one at the
\* cursor of the response before it.
StartFileName(next) == next

\* One b2_list_file_names request that is answered, lines 896-913 and 920;
\* when no cursor comes back the listing returns to whoever asked for it:
\* the caller (922), fileExists (932-933) or the lookup of uploadFile (726-730).
ListPageOk ==
  /\ UNCHANGED otherVars
  /\ pc \in { "list", "u_exists", "u_lookup" }
  /\ LET start == StartFileName(nextFileName)
         page == ListFileNames(remote, prefix, start, MaxFileCount)
         all == files \o page.files
         more == HasMore(page.nextFileName)
         again == ~more /\ pc = "u_exists" /\ SomeNamed(all, fileName)
     IN /\ obs' = Bump("list")
        /\ IF again
           THEN \* const files = await this.listExistingFiles(fileName)
                /\ files' = <<>> /\ nextFileName' = NoName
                /\ starts' = <<>> /\ cursors' = <<>>
           ELSE /\ files' = all /\ nextFileName' = page.nextFileName
                /\ starts' = Append(starts, start)
                /\ cursors' = Append(cursors, page.nextFileName)
        /\ IF more
           THEN UNCHANGED << pc, result >>
           ELSE CASE pc = "list" ->
                       /\ pc' = "done"
                       /\ result' = Resolved("list", NoFile, all)
                  [] pc = "u_exists" ->
                       /\ pc' = IF SomeNamed(all, fileName) THEN "u_lookup" ELSE "u_stat"
                       /\ UNCHANGED result
                  [] pc = "u_lookup" ->
                       IF FindNamed(all, fileName) # NoFile
                       THEN /\ pc' = "done"
                            /\ result' = Resolved("upload", FindNamed(all, fileName), <<>>)
                       ELSE /\ pc' = "u_stat"
                            /\ UNCHANGED result
  /\ UNCHANGED << clientVars, remote, prefix, callVars, loopVars, largeVars, reqs,
                  lastResponse >>

\* A catch that returns what the pages before the failure held.
OnListErrorPartial(o, e, fs) == Resolved(o, NoFile, fs)

\* catch (error) { throw new B2Error(...) }, lines 914-919: the files array
\* is a local of the call and goes with it.
OnListError(o, e, fs) == Rejected(o, "ListFailed", e)

\* A b2_list_file_names request that fails, lines 914-919 (and 934-939 when
\* fileExists asked): the call rejects, whatever was fetched is dropped.
ListPageFail ==
  /\ UNCHANGED otherVars
  /\ pc \in { "list", "u_exists", "u_lookup" }
  /\ \E e \in Failures :
       result' = OnListError(IF pc = "list" THEN "list" ELSE "upload", e, files)
  /\ starts' = Append(starts, StartFileName(nextFileName))
  /\ obs' = Bump("list")
  /\ pc' = "done"
  /\ UNCHANGED << clientVars, remote, prefix, files, nextFileName, cursors, callVars,
                  loopVars, largeVars, reqs, lastResponse >>

\* ------------------------------------------------------------- uploadFile
\* Entry of uploadFile(filePath, fileName), lines 716-722; fileSize is the
\* size stat reports for filePath.
UploadFile ==
  /\ UNCHANGED otherVars
  /\ pc = "idle"
  /\ \E n \in UploadNames, size \in FileSizes :
       /\ fileName' = n /\ prefix' = n /\ fileSize' = size
       /\ existed' = remote[n]
  /\ retries' = 0 /\ lastError' = Null /\ err' = Null
  /\ files' = <<>> /\ nextFileName' = NoName /\ starts' = <<>> /\ cursors' = <<>>
  /\ fileId' = NoId /\ partNumber' = 0 /\ partSha1Array' = <<>>
  /\ parts' = <<>> /\ finishReq' = [fileId |-> NoId, partSha1Array |-> <<>>]
  /\ lastResponse' = NoFile
  /\ obs' = NoObs /\ reqs' = NoReqs
  /\ IF IsAuthenticated
     THEN pc' = "u_exists" /\ result' = NoResult
     ELSE pc' = "done" /\ result' = Rejected("upload", "NotAuthenticated", Null)
  /\ UNCHANGED << clientVars, remote >>

\* Top of the retry loop and stat, lines 736-748 and 796: one attempt begins.
\* The loop is left through its condition only with retries above maxRetries
\* (883-885).
BeginAttempt ==
  /\ UNCHANGED otherVars
  /\ pc = "u_stat"
  /\ IF LoopCondition(retries)
     THEN /\ obs' = Bump("attempts")
          /\ reqs' = NoReqs
          /\ \/ /\ pc' = IF UseSimpleUpload(fileSize) THEN "u_geturl" ELSE "u_start"
                /\ UNCHANGED err
             \/ /\ err' = "io"
                /\ pc' = "u_catch"
          /\ UNCHANGED result
     ELSE /\ pc' = "done"
          /\ result' = Rejected("upload", "RetriesExhausted", lastError)
          /\ UNCHANGED << obs, reqs, err >>
  /\ UNCHANGED << clientVars, remote, callVars, retries, lastError, listVars,
                  largeVars, lastResponse >>

\* b2_get_upload_url answered, lines 749-770.
GetUploadUrl ==
  /\ UNCHANGED otherVars
  /\ pc = "u_geturl"
  /\ pc' = "u_post"
  /\ reqs' = Sent("uploadUrl")
  /\ UNCHANGED << clientVars, remote, callVars, loopVars, listVars, largeVars,
                  result, obs, lastResponse >>

\* The single-shot upload answered, lines 773-793: the remote stores the
\* object and the call returns the response data.
PostFile ==
  /\ UNCHANGED otherVars
  /\ pc = "u_post"
  /\ LET stored == [fileName |-> fileName, fileId |-> NewFileId(obs.attempts),
                    contentLength |-> fileSize]
     IN /\ remote' = [remote EXCEPT ![fileName] = stored]
        /\ lastResponse' = stored
        /\ result' = Resolved("upload", stored, <<>>)
  /\ reqs' = Sent("upload")
  /\ obs' = Bump("accepted")
  /\ pc' = "done"
  /\ UNCHANGED << clientVars, callVars, loopVars, listVars, largeVars >>

\* b2_start_large_file answered, lines 797-802: a new session, part 1 next.
StartLargeFile ==
  /\ UNCHANGED otherVars
  /\ pc = "u_start"
  /\ fileId' = NewFileId(obs.attempts)
  /\ partSha1Array' = <<>>
  /\ parts' = <<>>
  /\ partNumber' = FirstPartNumber
  /\ pc' = IF FirstPartNumber <= TotalParts(fileSize) THEN "u_parturl" ELSE "u_finish"
  /\ obs' = Bump("sessions")
  /\ reqs' = Sent("start")
  /\ UNCHANGED << clientVars, remote, callVars, loopVars, listVars, finishReq,
                  result, lastResponse >>

\* b2_get_upload_part_url answered, lines 803-818.
GetUploadPartUrl ==
  /\ UNCHANGED otherVars
  /\ pc = "u_parturl"
  /\ pc' = "u_part"
  /\ reqs' = Sent("partUrl")
  /\ UNCHANGED << clientVars, remote, callVars, loopVars, listVars, largeVars,
                  result, obs, lastResponse >>

\* The part upload answered, lines 819-834 and 584-612.
UploadPart ==
  /\ UNCHANGED otherVars
  /\ pc = "u_part"
  /\ LET chunk == Chunk(partNumber, fileSize)
         contentSha1 == Sha1(chunk)
     IN /\ parts' = Append(parts, [partNumber |-> partNumber,
                                   contentLength |-> chunk.length,
                                   contentSha1 |-> contentSha1])
        /\ partSha1Array' = PutSha(partSha1Array, partNumber, contentSha1)
  /\ partNumber' = NextPartNumber(partNumber)
  /\ pc' = IF NextPartNumber(partNumber) <= TotalParts(fileSize) THEN "u_parturl"
           ELSE "u_finish"
  /\ obs' = [obs EXCEPT !.maxPart = IF partNumber > @ THEN partNumber ELSE @]
  /\ reqs' = Sent("part")
  /\ UNCHANGED << clientVars, remote, callVars, loopVars, listVars, fileId, finishReq,
                  result, lastResponse >>

\* b2_finish_large_file answered, lines 836-851 and 614-625.
FinishLargeFile ==
  /\ UNCHANGED otherVars
  /\ pc = "u_finish"
  /\ finishReq' = [fileId |-> fileId, partSha1Array |-> partSha1Array]
  /\ LET stored == [fileName |-> fileName, fileId |-> fileId, contentLength |-> fileSize]
     IN /\ remote' = [remote EXCEPT ![fileName] = stored]
        /\ result' = Resolved("upload", stored, <<>>)
  /\ obs' = [obs EXCEPT !.finished = @ + 1, !.accepted = @ + 1]
  /\ reqs' = Sent("finish")
  /\ pc' = "done"
  /\ UNCHANGED << clientVars, callVars, loopVars, listVars, fileId, partNumber,
                  partSha1Array, parts, lastResponse >>

RequestAt(p) ==
  CASE p = "u_geturl" -> "uploadUrl"
    [] p = "u_post" -> "upload"
    [] p = "u_start" -> "start"
    [] p = "u_parturl" -> "partUrl"
    [] p = "u_part" -> "part"
    [] p = "u_finish" -> "finish"

\* Whether the remote has stored the object when a request fails: it may have
\* when the request that completes an upload (the POST of 773, the
\* b2_finish_large_file of 836) got no response, the client seeing a network
\* error or, were one set, a timeout.
LostResponseOutcomes(p, e) ==
  IF e = "network" /\ p \in { "u_post", "u_finish" } THEN BOOLEAN ELSE { FALSE }

\* Any request of an attempt failing: control goes to the catch at line 852.
RequestFails ==
  /\ UNCHANGED otherVars
  /\ pc \in { "u_geturl", "u_post", "u_start", "u_parturl", "u_part", "u_finish" }
  /\ \E e \in Failures : \E took \in LostResponseOutcomes(pc, e) :
       /\ err' = e
       /\ IF took
          THEN /\ remote' = [remote EXCEPT ![fileName] =
                               [fileName |-> fileName,
                                fileId |-> IF pc = "u_post" THEN NewFileId(obs.attempts)
                                                            ELSE fileId,
                                contentLength |-> fileSize]]
               /\ obs' = [obs EXCEPT !.accepted = @ + 1,
                                     !.finished = @ + (IF pc = "u_finish" THEN 1 ELSE 0)]
          ELSE UNCHANGED << remote, obs >>
  /\ reqs' = Sent(RequestAt(pc))
  /\ finishReq' = IF pc = "u_finish"
                  THEN [fileId |-> fileId, partSha1Array |-> partSha1Array]
                  ELSE finishReq
  /\ pc' = "u_catch"
  /\ UNCHANGED << clientVars, callVars, retries, lastError, listVars, fileId,
                  partNumber, partSha1Array, parts, result, lastResponse >>

\* A catch that takes a failed re-authentication for one more failed attempt.
ReauthErrorRetried(reauth) == FALSE

\* await this.authenticate() at 685 and 692 stands in the catch block, outside
\* any try: what it throws leaves uploadFile.
ReauthErrorThrown(reauth) == reauth = "failed"

\* The catch block, lines 852-880, with handleUploadError (654-710) and the
\* re-authentication it awaits (685, 692), which may itself fail.
CatchUploadError ==
  /\ UNCHANGED otherVars
  /\ pc = "u_catch"
  /\ lastError' = err
  /\ err' = Null
  /\ \E reauth \in IF NeedsReauth(err) THEN { "ok", "failed" } ELSE { "none" } :
     \E tok \in IF reauth = "ok" THEN Tokens ELSE { authToken } :
       LET thrown == ReauthErrorThrown(reauth)
           auths == [obs EXCEPT !.fails = @ + 1,
                                !.auth = @ + (IF reauth = "none" THEN 0 ELSE 1),
                                !.authFails = @ + (IF reauth = "failed" THEN 1 ELSE 0)]
       IN /\ authToken' = tok
          /\ CASE thrown ->
                    /\ pc' = "done"
                    /\ result' = Rejected("upload", "B2Error", "authenticate")
                    /\ retries' = retries
                    /\ obs' = auths
               [] ~thrown /\ ~ShouldRetry(err) ->
                    /\ pc' = "done"
                    /\ result' = Rejected("upload", "NotRetried", err)
                    /\ retries' = retries
                    /\ obs' = auths
               [] ~thrown /\ ShouldRetry(err) /\ CanRetry(retries) ->
                    /\ pc' = "u_stat"
                    /\ retries' = retries + 1
                    /\ UNCHANGED result
                    /\ obs' = [auths EXCEPT !.sleeps = @ + 1]
               [] ~thrown /\ ShouldRetry(err) /\ ~CanRetry(retries) ->
                    /\ pc' = "done"
                    /\ result' = Rejected("upload", "RetriesExhausted", err)
                    /\ retries' = retries
                    /\ obs' = auths
  /\ UNCHANGED << apiUrl, downloadUrl, bucketId, maxRetries, remote, callVars, listVars,
                  largeVars, reqs, lastResponse >>

Next ==
  \/ Authenticate
  \/ ListExistingFiles
  \/ ListPageOk
  \/ ListPageFail
  \/ UploadFile
  \/ BeginAttempt
  \/ GetUploadUrl
  \/ PostFile
  \/ StartLargeFile
  \/ GetUploadPartUrl
  \/ UploadPart
  \/ FinishLargeFile
  \/ RequestFails
  \/ CatchUploadError

Spec == Init /\ [][Next]_vars

\* ------------------------------------------------ convertBsonToJsonlChunks
\* Files and lines are sequences of bytes.
NL == 10

\* if (size < 5 || size > 16 * 1024 * 1024), the upper limit
MaxDocSize == 16777216

\* Documents the input is made of: the empty document, and one whose
\* element bytes hold a line feed.
ValidRecords == { <<5, 0, 0, 0, 0>>, <<7, 0, 0, 0, 1, 10, 0>> }

\* Length fields out of range: below 5, above 16 MiB, and with the sign bit.
BadLengths == { <<4, 0, 0, 0>>, <<0, 0, 0, 0>>, <<1, 0, 0, 1>>, <<0, 0, 0, 128>>,
                <<255, 255, 255, 255>> }

\* A record of 5 bytes that lacks its terminator.
Undecodable == <<5, 0, 0, 0, 1>>

ChunkSizes == { 1, 5, 8 }

ProperPrefixes(rec) == { SubSeq(rec, 1, n) : n \in 1..(Len(rec) - 1) }

\* What may follow the documents of an input file, by kind.
Tails ==
  { [tail |-> <<>>, kind |-> "none"] }
    \cup { [tail |-> t, kind |-> "truncated"] :
             t \in UNION { ProperPrefixes(r) : r \in ValidRecords } }
    \cup { [tail |-> t, kind |-> "badLength"] :
             t \in BadLengths \cup { b \o <<0>> : b \in BadLengths } }
    \cup { [tail |-> Undecodable, kind |-> "undecodable"] }

RecordSeqs == UNION { [ 1..n -> ValidRecords ] : n \in 0..MaxRecords }

RECURSIVE Flatten(_)
Flatten(ss) == IF ss = <<>> THEN <<>> ELSE Head(ss) \o Flatten(Tail(ss))

\* The bytes of the input file.
InputBytes == Flatten(source.records) \o source.tail

\* buffer.readInt32LE(position): four bytes, least significant first, as a
\* signed 32-bit integer.
ReadInt32LE(buf, pos) ==
  LET top == IF buf[pos + 4] >= 128 THEN buf[pos + 4] - 256 ELSE buf[pos + 4]
  IN buf[pos + 1] + 256 * buf[pos + 2] + 65536 * buf[pos + 3] + 16777216 * top

\* A check with no upper limit.
ValidSizeNoCeiling(size) == size >= 5

\* The negation of line 36
ValidSize(size) == size >= 5 /\ size <= MaxDocSize

\* BSON.deserialize throws unless the document ends with its terminator.
Decodable(docBuffer) == docBuffer[Len(docBuffer)] = 0

\* BSON.deserialize(docBuffer): the element bytes of the document
Deserialize(docBuffer) == SubSeq(docBuffer, 5, Len(docBuffer) - 1)

\* A rendering that leaves control characters as they are.
EscapeRaw(b) == << b >>

\* JSON.stringify writes a line feed inside a value as backslash, n.
Escape(b) == IF b = NL THEN << 92, 110 >> ELSE << b >>

\* JSON.stringify(doc) + '\n'
Line(doc) ==
  << 123 >> \o Flatten([ i \in 1..Len(doc) |-> Escape(doc[i]) ]) \o << 125 >> \o << NL >>

\* The while loop of _transform, lines 31-58, from position pos with out
\* pushed so far: where it stops, what it pushed, and the error it called
\* back with, if any.
RECURSIVE Drain(_, _, _)
Drain(buf, pos, out) ==
  IF pos + 4 <= Len(buf)
  THEN LET size == ReadInt32LE(buf, pos)
       IN IF ~ValidSize(size)
          THEN [position |-> pos, pushed |-> out, error |-> "InvalidSize"]
          ELSE IF pos + size > Len(buf)
          THEN [position |-> pos, pushed |-> out, error |-> Null]
          ELSE LET docBuffer == SubSeq(buf, pos + 1, pos + size)
               IN IF Decodable(docBuffer)
                  THEN Drain(buf, pos + size, Append(out, Line(Deserialize(docBuffer))))
                  ELSE [position |-> pos, pushed |-> out, error |-> "ParseFailed"]
  ELSE [position |-> pos, pushed |-> out, error |-> Null]

\* A transform that keeps the documents it has consumed.
RemainingUnsliced(buf, pos) == buf

\* if (this.position > 0) { this.buffer = this.buffer.slice(this.position) },
\* lines 61-64
Remaining(buf, pos) == IF pos > 0 THEN SubSeq(buf, pos + 1, Len(buf)) ELSE buf

\* A flush that looks for a whole length field only.
FlushFailsOnHeader(buf) == Len(buf) >= 4

\* if (this.buffer.length > 0), line 75
FlushFails(buf) == Len(buf) > 0

\* The only 'error' listener is on the stream the last pipe returns, line 167.
HasErrorListener(stream) == stream = "chunking"

\* A switch that keeps every file at or below the threshold.
NeedsNewChunkCapped(stream, size, len, limit) == stream = 0 \/ size + len > limit

\* if (!this.currentStream || this.currentSize >= this.chunkSize), line 108
NeedsNewChunk(stream, size, len, limit) == stream = 0 \/ size >= limit

\* A write that stops at the threshold.
WrittenCapped(chunk, size, limit) ==
  SubSeq(chunk, 1, IF limit - size < Len(chunk) THEN limit - size ELSE Len(chunk))

\* this.currentStream.write(chunk), line 119
Written(chunk, size, limit) == chunk

\* In a name, PartSuffix(k) stands for ".jsonl.part" followed by k.
PartSuffix(k) == 10 + k

\* Names that count from part0.
ChunkNameFromZero(base, k) == base \o << PartSuffix(k - 1) >>

\* path.join(outputDir, `${baseName}.jsonl.part${currentChunk}`), less the directory
ChunkName(base, k) == base \o << PartSuffix(k) >>

\* The base name the conversion works under.
InputBase == <<1>>

BsonInit ==
  /\ ClientInit /\ bucketId = "bucket" /\ maxRetries = 0
  /\ remote = <<>>
  /\ BackupIdle /\ dump = <<>> /\ contents = <<>>
  /\ ExtraIdle
  /\ \E rs \in RecordSeqs, t \in Tails :
       source = [records |-> rs, tail |-> t.tail, kind |-> t.kind]
  /\ chunkSize \in ChunkSizes
  /\ offset = 0 /\ rstate = "open"
  /\ buffer = <<>> /\ position = 0 /\ tstate = "open" /\ terror = Null
  /\ pushed = <<>> /\ delivered = 0
  /\ currentChunk = 0 /\ currentSize = 0 /\ currentStream = 0 /\ chunkFilePaths = <<>>
  /\ chunkFiles = <<>> /\ cstate = "open"
  /\ promise = "pending" /\ escaped = Null
  /\ synced = <<>>

\* An 'error' event on one of the three streams, lines 163-167: the promise
\* rejects if the stream has a listener, else the error goes unhandled.
Emit(stream, e) ==
  IF HasErrorListener(stream)
  THEN promise' = "rejected" /\ UNCHANGED escaped
  ELSE escaped' = e /\ UNCHANGED promise

\* The read stream hands on the next bytes of the file, however many, and
\* BsonToJsonlTransform._transform (lines 25-70) takes them.
BsonTransform ==
  /\ rstate = "open" /\ tstate = "open" /\ escaped = Null
  /\ offset < Len(InputBytes)
  /\ \E n \in 1..(Len(InputBytes) - offset) :
       LET chunk == SubSeq(InputBytes, offset + 1, offset + n)
           joined == buffer \o chunk
           r == Drain(joined, position, <<>>)
       IN /\ offset' = offset + n
          /\ pushed' = pushed \o r.pushed
          /\ IF r.error # Null
             THEN /\ buffer' = joined
                  /\ position' = r.position
                  /\ tstate' = "errored" /\ terror' = r.error
                  /\ Emit("bsonToJsonl", r.error)
             ELSE /\ buffer' = Remaining(joined, r.position)
                  /\ position' = 0
                  /\ UNCHANGED << tstate, terror, promise, escaped >>
  /\ UNCHANGED << b2Vars, remote, backupVars, extraVars, synced, source, chunkSize, rstate, delivered,
                  currentChunk, currentSize, currentStream, chunkFilePaths, chunkFiles,
                  cstate >>

\* The file cannot be opened or read: the read stream emits 'error'.
ReadFails ==
  /\ rstate = "open" /\ tstate = "open" /\ escaped = Null
  /\ rstate' = "errored"
  /\ Emit("readStream", "ReadFailed")
  /\ UNCHANGED << b2Vars, remote, backupVars, extraVars, synced, source, chunkSize, offset, buffer, position,
                  tstate, terror, pushed, delivered, currentChunk, currentSize,
                  currentStream, chunkFilePaths, chunkFiles, cstate >>

\* The read stream ends and the pipe ends the transform: _flush, lines 72-83.
BsonFlush ==
  /\ rstate = "open" /\ tstate = "open" /\ escaped = Null
  /\ offset = Len(InputBytes)
  /\ rstate' = "ended"
  /\ IF FlushFails(buffer)
     THEN /\ tstate' = "errored" /\ terror' = "Incomplete"
          /\ Emit("bsonToJsonl", "Incomplete")
     ELSE /\ tstate' = "ended"
          /\ UNCHANGED << terror, promise, escaped >>
  /\ UNCHANGED << b2Vars, remote, backupVars, extraVars, synced, source, chunkSize, offset, buffer, position,
                  pushed, delivered, currentChunk, currentSize, currentStream,
                  chunkFilePaths, chunkFiles, cstate >>

\* ChunkingTransform._transform, lines 106-125, on the next line pushed.
ChunkingTransform ==
  /\ cstate = "open" /\ delivered < Len(pushed)
  /\ LET chunk == pushed[delivered + 1]
         fresh == NeedsNewChunk(currentStream, currentSize, Len(chunk), chunkSize)
         chunkNo == IF fresh THEN currentChunk + 1 ELSE currentChunk
         size == IF fresh THEN 0 ELSE currentSize
         data == Written(chunk, size, chunkSize)
     IN /\ currentChunk' = chunkNo
        /\ currentStream' = chunkNo
        /\ chunkFilePaths' = IF fresh
                             THEN Append(chunkFilePaths, ChunkName(InputBase, chunkNo))
                             ELSE chunkFilePaths
        /\ chunkFiles' = IF fresh THEN Append(chunkFiles, data)
                         ELSE [chunkFiles EXCEPT ![currentStream] = @ \o data]
        /\ currentSize' = size + Len(chunk)
        /\ synced' = IF fresh THEN Append(synced, 0) ELSE synced
  /\ delivered' = delivered + 1
  /\ UNCHANGED << b2Vars, remote, backupVars, extraVars, source, chunkSize, offset, rstate, buffer,
                  position, tstate, terror, pushed, cstate, promise, escaped >>

\* The transform has ended and every line is through: the pipe ends
\* ChunkingTransform, _flush (127-136) ends the open file, and 'finish'
\* resolves the promise with the chunk paths (166).
ChunkingFlush ==
  /\ cstate = "open" /\ tstate = "ended" /\ delivered = Len(pushed)
  /\ cstate' = "finished"
  /\ currentStream' = currentStream
  /\ promise' = "resolved"
  /\ UNCHANGED << b2Vars, remote, backupVars, extraVars, synced, source, chunkSize, offset, rstate, buffer,
                  position, tstate, terror, pushed, delivered, currentChunk, currentSize,
                  chunkFilePaths, chunkFiles, escaped >>

\* The fs.WriteStream of a chunk file writes out what write() (line 119)
\* queued: write() and end() (lines 110, 130) return at once, no callback
\* is passed and no 'finish' of the file stream is awaited, so this step is
\* ordered with nothing else in the conversion.
WriteOut ==
  /\ \E i \in 1..Len(chunkFiles) :
       /\ synced[i] < Len(chunkFiles[i])
       /\ synced' = [synced EXCEPT ![i] = Len(chunkFiles[i])]
  /\ UNCHANGED << b2Vars, remote, backupVars, extraVars, source, chunkSize, offset, rstate,
                  buffer, position, tstate, terror, pushed, delivered, currentChunk,
                  currentSize, currentStream, chunkFilePaths, chunkFiles, cstate,
                  promise, escaped >>

NextBson ==
  \/ BsonTransform
  \/ ReadFails
  \/ BsonFlush
  \/ ChunkingTransform
  \/ ChunkingFlush
  \/ WriteOut

SpecBson == BsonInit /\ [][NextBson]_vars

\* ------------------------------------------------------------ BackupService
\* Names in the dump and the bucket: Bson stands for the extension ".bson".
Bson == 9

Bases == { <<1>>, <<1, 1>> }

LocalName(base) == base \o << Bson >>

LocalNames == { LocalName(b) : b \in Bases }

\* chunkName.split('.').pop()?.replace('part', '')
PartNumberOf(chunkName) == chunkName[Len(chunkName)] - PartSuffix(0)

\* path.join(baseName, `${baseName}.jsonl.part${partNumber}`)
RemotePath(base, pn) == base \o << Slash >> \o base \o << PartSuffix(pn) >>

\* What the bucket may hold: chunks of either base name, an object named as a
\* local file, and an object under a base name's folder that is no chunk.
BucketNames ==
  { RemotePath(b, k) : b \in Bases, k \in 1..MaxChunks }
    \cup { LocalName(<<1>>), <<1, Slash, 1>> }

\* A file the dump does not hold.
NoDump == 0 - 1

\* path.basename(name, '.bson')
BaseName(name) ==
  IF Len(name) > 1 /\ name[Len(name)] = Bson THEN SubSeq(name, 1, Len(name) - 1)
  ELSE name

HasSlash(n) == \E i \in 1..Len(n) : n[i] = Slash

\* fileName.split('/')[0]
FirstPart(n) ==
  SubSeq(n, 1, (CHOOSE i \in 1..Len(n) : n[i] = Slash /\ \A j \in 1..(i - 1) : n[j] # Slash) - 1)

\* remoteFolders, lines 188-194
RemoteFolders(remoteFiles) ==
  { FirstPart(remoteFiles[i].fileName) :
      i \in { j \in 1..Len(remoteFiles) : HasSlash(remoteFiles[j].fileName) } }

\* A diff by name only.
IsNewByNameOnly(localFile, remoteFiles) == ~SomeNamed(remoteFiles, localFile.name)

\* The filter of lines 197-204
IsNew(localFile, remoteFiles) ==
  /\ ~SomeNamed(remoteFiles, localFile.name)
  /\ BaseName(localFile.name) \notin RemoteFolders(remoteFiles)

RECURSIVE Filter(_, _)
Filter(ls, remoteFiles) ==
  IF ls = <<>> THEN <<>>
  ELSE (IF IsNew(Head(ls), remoteFiles) THEN << Head(ls) >> ELSE <<>>)
         \o Filter(Tail(ls), remoteFiles)

\* getLocalFiles, lines 301-347: every .bson file under dumpPath, directory
\* by directory.
RECURSIVE ScanDirectories(_, _)
ScanDirectories(d, dirs) ==
  IF dirs = 0 THEN <<>>
  ELSE LET names == SortNames({ n \in LocalNames : d[n] # NoDump })
       IN ScanDirectories(d, dirs - 1)
            \o [ i \in 1..Len(names) |-> [name |-> names[i], path |-> << dirs, names[i] >>] ]

\* listExistingFiles() as getNewFiles calls it: no prefix, every page.
RECURSIVE ListAll(_, _, _)
ListAll(store, start, n) ==
  LET page == ListFileNames(store, <<>>, start, MaxFileCount)
  IN IF HasMore(page.nextFileName) /\ n > 0
     THEN page.files \o ListAll(store, page.nextFileName, n - 1)
     ELSE page.files

\* The chunk files convertBsonToJsonlChunks resolves with for a local file.
ChunkPaths(file) ==
  [ k \in 1..dump[file.path[2]] |-> ChunkName(BaseName(file.name), k) ]

SomeChunkRemote(store, base) == \E k \in 1..MaxChunks : store[RemotePath(base, k)] # NoFile

AllChunksRemote(store, base) ==
  \A k \in 1..dump[LocalName(base)] : store[RemotePath(base, k)] # NoFile

RunRejected(cause) ==
  [status |-> "error", error |-> "BackupError", cause |-> cause, at |-> Len(uploadCalls)]

\* The bytes an object holds: the run that uploaded them and the dump
\* directory of the local file they were transcoded from.
NoContent == [run |-> 0, dir |-> 0]

ContentOf(file, run) == [run |-> run, dir |-> file.path[1]]

RunResolved == [status |-> "ok", error |-> Null, cause |-> Null, at |-> Len(uploadCalls)]

BackupInit ==
  /\ ClientInit /\ bucketId = "bucket" /\ maxRetries = 0
  /\ \E present \in SUBSET BucketNames :
       remote = [ n \in BucketNames |-> IF n \in present THEN InitialFile(n) ELSE NoFile ]
  /\ BackupIdle
  /\ BsonIdle
  /\ ExtraIdle
  /\ dump \in [ LocalNames -> NoDump..MaxChunks ]
  /\ contents = [ n \in BucketNames |-> NoContent ]

\* performIncrementalBackup up to createDump, lines 221-225: the dump lands
\* in a directory of its own under dumpPath, or fails.
PerformIncrementalBackup ==
  /\ bpc = "idle" /\ runs < MaxRuns
  /\ runs' = runs + 1
  /\ uploadCalls' = <<>>
  /\ localFiles' = <<>> /\ newFiles' = <<>>
  /\ fileIdx' = 0 /\ chunkPaths' = <<>> /\ chunkIdx' = 0
  /\ \/ /\ dumpDirs' = dumpDirs + 1
        /\ bpc' = "diff"
        /\ outcome' = NoOutcome
     \/ /\ bpc' = "idle"
        /\ outcome' = [RunRejected("createDump") EXCEPT !.at = 0]
        /\ UNCHANGED dumpDirs
  /\ UNCHANGED << b2Vars, bsonVars, extraVars, contents, remote, dump, halted >>

\* getNewFiles, lines 179-219 (called at 228), and the temp directory (231-232).
GetNewFiles ==
  /\ bpc = "diff"
  /\ \/ LET scanned == ScanDirectories(dump, dumpDirs)
            remoteFiles == ListAll(remote, NoName, Cardinality(DOMAIN remote))
        IN /\ localFiles' = scanned
           /\ newFiles' = Filter(scanned, remoteFiles)
           /\ fileIdx' = 1
           /\ bpc' = "file"
           /\ UNCHANGED outcome
     \/ /\ bpc' = "idle"
        /\ outcome' = RunRejected("getNewFiles")
        /\ UNCHANGED << localFiles, newFiles, fileIdx >>
  /\ UNCHANGED << b2Vars, bsonVars, extraVars, contents, remote, dump, dumpDirs, chunkPaths, chunkIdx, runs,
                  uploadCalls, halted >>

\* The next file of the outer loop, lines 235-243: its conversion resolves
\* with the chunk paths, rejects (the output directory cannot be made), or
\* neither: an error of the read stream or the transform has no listener
\* (bson.util.ts:163-167) and ends the process, the run unsettled.
ConvertFile ==
  /\ bpc = "file" /\ fileIdx <= Len(newFiles)
  /\ \/ /\ chunkPaths' = ChunkPaths(newFiles[fileIdx])
        /\ chunkIdx' = 1
        /\ bpc' = "chunk"
        /\ UNCHANGED outcome
     \/ /\ bpc' = "idle"
        /\ outcome' = RunRejected("convert")
        /\ UNCHANGED << chunkPaths, chunkIdx >>
     \/ /\ bpc' = "crashed"
        /\ UNCHANGED << outcome, chunkPaths, chunkIdx >>
  /\ UNCHANGED << b2Vars, bsonVars, extraVars, contents, remote, dump, dumpDirs, localFiles, newFiles, fileIdx, runs,
                  uploadCalls, halted >>

\* A catch that logs and goes on to the next chunk.
SwallowsUploadError == FALSE

\* catch (error) { ...; throw error; }, lines 261-267
RethrowsUploadError == TRUE

\* The next chunk of the inner loop, lines 246-256: uploadFile stores the
\* chunk (or finds it stored) and returns, or throws.
UploadChunk ==
  /\ bpc = "chunk" /\ chunkIdx <= Len(chunkPaths)
  /\ LET file == newFiles[fileIdx]
         chunkName == chunkPaths[chunkIdx]
         baseName == BaseName(file.name)
         remotePath == RemotePath(baseName, PartNumberOf(chunkName))
         stored == [fileName |-> remotePath, fileId |-> NewFileId(runs),
                    contentLength |-> 1000]
     IN /\ uploadCalls' = Append(uploadCalls, remotePath)
        /\ \/ /\ remote' = IF remote[remotePath] = NoFile
                           THEN [remote EXCEPT ![remotePath] = stored]
                           ELSE remote
              /\ contents' = IF remote[remotePath] = NoFile
                             THEN [contents EXCEPT ![remotePath] = ContentOf(file, runs)]
                             ELSE contents
              /\ chunkIdx' = chunkIdx + 1
              /\ UNCHANGED << bpc, outcome, halted >>
           \/ /\ outcome' = [RunRejected("uploadFile") EXCEPT !.at = Len(uploadCalls) + 1]
              /\ halted' = IF SomeChunkRemote(remote, baseName)
                              /\ ~AllChunksRemote(remote, baseName)
                           THEN halted \cup { baseName }
                           ELSE halted
              /\ IF RethrowsUploadError
                 THEN bpc' = "idle" /\ UNCHANGED chunkIdx
                 ELSE chunkIdx' = chunkIdx + 1 /\ UNCHANGED bpc
              /\ UNCHANGED << remote, contents >>
  /\ UNCHANGED << b2Vars, bsonVars, extraVars, dump, dumpDirs, localFiles, newFiles, fileIdx, chunkPaths, runs >>

\* The inner loop is through: on to the next file.
NextFile ==
  /\ bpc = "chunk" /\ chunkIdx > Len(chunkPaths)
  /\ fileIdx' = fileIdx + 1
  /\ bpc' = "file"
  /\ UNCHANGED << b2Vars, bsonVars, extraVars, contents, remote, dump, dumpDirs, localFiles, newFiles, chunkPaths,
                  chunkIdx, runs, outcome, uploadCalls, halted >>

\* A catch that throws the cleanup error on.
RethrowsCleanupError == FALSE

\* catch (error) { logger.error(...); // Don't throw here }, lines 286-292
SwallowsCleanupError == TRUE

\* The outer loop is through, lines 270-292: dumpPath is emptied, and a
\* failure to empty it is logged only.
CompleteRun ==
  /\ bpc = "file" /\ fileIdx > Len(newFiles)
  /\ \/ /\ dumpDirs' = 0
        /\ outcome' = RunResolved
     \/ /\ UNCHANGED dumpDirs
        /\ outcome' = IF SwallowsCleanupError THEN RunResolved ELSE RunRejected("cleanup")
  /\ bpc' = "idle"
  /\ UNCHANGED << b2Vars, bsonVars, extraVars, contents, remote, dump, localFiles, newFiles, fileIdx, chunkPaths,
                  chunkIdx, runs, uploadCalls, halted >>

NextBackup ==
  \/ PerformIncrementalBackup
  \/ GetNewFiles
  \/ ConvertFile
  \/ UploadChunk
  \/ NextFile
  \/ CompleteRun

SpecBackup == BackupInit /\ [][NextBackup]_vars

\* ------------------------------------------------------------------ index.ts
\* Most times the interval timer fires.
MaxTicks == 2

\* Every subsystem at rest, the services constructed (lines 122-138).
IdleInit ==
  /\ ClientInit /\ maxRetries = 0
  /\ remote = <<>>
  /\ BackupIdle /\ dump = <<>> /\ contents = <<>>
  /\ BsonIdle
  /\ ExtraIdle

\* A performBackup call just made.
Job(kind) == [kind |-> kind, stage |-> "auth", error |-> Null]

\* Calls that have neither returned nor thrown.
InProgress == { j \in 1..Len(jobs) : jobs[j].stage \notin { "done", "failed" } }

\* What a call throws at each await: authenticate a B2Error
\* (b2.service.ts:525), performIncrementalBackup the BackupError class that
\* backup.service.ts declares (150-155, 295).
ThrownAt(stage) ==
  IF stage = "auth" THEN "B2Error" ELSE "services/backup.service.BackupError"

\* error instanceof BackupError, line 108, BackupError being the class of
\* ./utils/errors (line 78).
IsBackupError(e) == e = "utils/errors.BackupError"

\* main(), lines 115-156: the signal handlers, then the initial call.
Main ==
  /\ mpc = "off"
  /\ mpc' = "initial"
  /\ jobs' = << Job("initial") >>
  /\ UNCHANGED << b2Vars, remote, backupVars, bsonVars, backoffVars, rotVars, partVars, exitCode,
                  ticks, tempDir >>

\* The callback of setInterval, lines 159-165: a new call every
\* BACKUP_INTERVAL_MS, whatever the earlier ones are doing.
Tick ==
  /\ mpc = "scheduled" /\ exitCode = NoExit /\ ticks < MaxTicks
  /\ ticks' = ticks + 1
  /\ jobs' = Append(jobs, Job("scheduled"))
  /\ UNCHANGED << b2Vars, remote, backupVars, bsonVars, backoffVars, rotVars, partVars, mpc,
                  exitCode, tempDir >>

\* A call gets past its next await: authenticate (99); the dump, the diff and
\* the conversions that write the chunk files (backup.service.ts:224-243);
\* the uploads of those files (251); the emptying of dumpPath (275-292),
\* whose failure is only logged. The initial call returning lets main go on
\* to setInterval (156-165).
PerformBackupStep ==
  /\ exitCode = NoExit
  /\ \E j \in InProgress :
       LET stage == jobs[j].stage
           next == CASE stage = "auth" -> "dump"
                     [] stage = "dump" -> "upload"
                     [] stage = "upload" -> "cleanup"
                     [] stage = "cleanup" -> "done"
       IN /\ stage = "upload" => j \in tempDir
          /\ jobs' = [jobs EXCEPT ![j].stage = next]
          /\ \/ /\ tempDir' = CASE stage = "dump" -> tempDir \cup { j }
                                [] stage = "cleanup" -> {}
                                [] OTHER -> tempDir
             \/ /\ stage = "cleanup"
                /\ UNCHANGED tempDir
          /\ mpc' = IF next = "done" /\ jobs[j].kind = "initial" THEN "scheduled" ELSE mpc
  /\ UNCHANGED << b2Vars, remote, backupVars, bsonVars, backoffVars, rotVars, partVars, exitCode, ticks >>

\* An await of the call rejects: the catch of performBackup (106-112) exits
\* on a BackupError and throws anything else on, to main().catch (171-173)
\* from the initial call and to the catch of the timer callback (162-164)
\* from a scheduled one.
PerformBackupCatch ==
  /\ exitCode = NoExit
  /\ \E j \in InProgress :
       LET e == ThrownAt(jobs[j].stage)
       IN /\ jobs' = [jobs EXCEPT ![j].stage = "failed", ![j].error = e]
          /\ exitCode' = IF IsBackupError(e) \/ jobs[j].kind = "initial" THEN 1 ELSE NoExit
  /\ UNCHANGED << b2Vars, remote, backupVars, bsonVars, backoffVars, rotVars, partVars, mpc, ticks, tempDir >>

\* SIGTERM or SIGINT, lines 141-153.
Shutdown ==
  /\ mpc # "off" /\ exitCode = NoExit
  /\ exitCode' = 0
  /\ UNCHANGED << b2Vars, remote, backupVars, bsonVars, backoffVars, rotVars, partVars, mpc, jobs,
                  ticks, tempDir >>

NextMain ==
  \/ Main
  \/ Tick
  \/ PerformBackupStep
  \/ PerformBackupCatch
  \/ Shutdown

SpecMain == IdleInit /\ [][NextMain]_vars

\* ------------------------------------------------------------ rotateBackups
\* Most entries the directory holds.
MaxEntries == 3

\* 24 * 60 * 60 * 1000, line 78
DayMs == 86400000

\* now.getTime() - file.mtime.getTime() of the entries: just written, exactly
\* one day old, and one millisecond older.
Ages == { 0, DayMs, DayMs + 1 }

\* An entry: whether its name ends in '.gz', and its age at line 77.
Entries == [ gz : BOOLEAN, age : Ages ]

Policies == [ maxFiles : 0..MaxEntries, maxAgeDays : { 0, 1 } ]

Range(s) == { s[i] : i \in 1..Len(s) }

\* Where entry x goes in a list sorted newest first, behind its equals:
\* Array.prototype.sort is stable.
RECURSIVE Insert(_, _, _)
Insert(d, x, sorted) ==
  IF sorted = <<>> THEN << x >>
  ELSE IF d[x].age < d[Head(sorted)].age
       THEN << x >> \o sorted
       ELSE << Head(sorted) >> \o Insert(d, x, Tail(sorted))

\* files.filter(file => file.endsWith('.gz')), the stats, and
\* fileStats.sort((a, b) => b.mtime.getTime() - a.mtime.getTime()), lines 43-59,
\* over the entries 1..n of d.
RECURSIVE SortedStats(_, _)
SortedStats(d, n) ==
  IF n = 0 THEN <<>>
  ELSE IF d[n].gz THEN Insert(d, n, SortedStats(d, n - 1))
       ELSE SortedStats(d, n - 1)

\* fileStats.slice(policy.maxFiles) under if (fileStats.length > policy.maxFiles)
FilesToDelete(fs, p) ==
  IF Len(fs) > p.maxFiles THEN SubSeq(fs, p.maxFiles + 1, Len(fs)) ELSE <<>>

\* An age test that takes the file of exactly maxAgeDays too.
IsOldInclusive(age, p) == age >= p.maxAgeDays * DayMs

\* now.getTime() - file.mtime.getTime() > maxAgeMs, lines 78-82
IsOld(age, p) == age > p.maxAgeDays * DayMs

\* fileStats.filter(...), lines 80-82
OldFiles(d, fs, p) == SelectSeq(fs, LAMBDA x : IsOld(d[x].age, p))

\* await Promise.all(batch.map(async file => { await unlink(file.path) })):
\* every unlink is issued; one of an entry no longer there fails, and so may
\* any other (fail, 0 for none); the entries whose unlink succeeds are gone.
Unlinked(batch, fail) == { x \in Range(batch) : x # fail }

UnlinkRejects(batch, fail) == \E x \in Range(batch) : x = fail \/ x \notin onDisk

\* rotateBackups up to the sort, lines 41-59.
RotateBackups ==
  /\ rpc = "idle"
  /\ \E n \in 0..MaxEntries : \E d \in [ 1..n -> Entries ], p \in Policies :
       /\ dir' = d /\ policy' = p
       /\ onDisk' = 1..n
       /\ \/ /\ fileStats' = SortedStats(d, n)
             /\ rpc' = "maxFiles"
             /\ UNCHANGED rotResult
          \/ /\ fileStats' = <<>>
             /\ rpc' = "done"
             /\ rotResult' = "error"
  /\ UNCHANGED << b2Vars, remote, backupVars, bsonVars, backoffVars, mainVars, partVars, unlinked >>

\* The max files policy, lines 61-74.
ApplyMaxFiles ==
  /\ rpc = "maxFiles"
  /\ LET batch == FilesToDelete(fileStats, policy)
     IN \E fail \in { 0 } \cup Range(batch) :
          /\ unlinked' = unlinked \o batch
          /\ onDisk' = onDisk \ Unlinked(batch, fail)
          /\ IF UnlinkRejects(batch, fail)
             THEN rpc' = "done" /\ rotResult' = "error"
             ELSE rpc' = "maxAge" /\ UNCHANGED rotResult
  /\ UNCHANGED << b2Vars, remote, backupVars, bsonVars, backoffVars, mainVars, partVars, dir, policy,
                  fileStats >>

\* The max age policy, lines 76-98, over the fileStats of line 59.
ApplyMaxAge ==
  /\ rpc = "maxAge"
  /\ LET batch == OldFiles(dir, fileStats, policy)
     IN \E fail \in { 0 } \cup Range(batch) :
          /\ unlinked' = unlinked \o batch
          /\ onDisk' = onDisk \ Unlinked(batch, fail)
          /\ rotResult' = IF UnlinkRejects(batch, fail) THEN "error" ELSE "ok"
  /\ rpc' = "done"
  /\ UNCHANGED << b2Vars, remote, backupVars, bsonVars, backoffVars, mainVars, partVars, dir, policy,
                  fileStats >>

NextRotate ==
  \/ RotateBackups
  \/ ApplyMaxFiles
  \/ ApplyMaxAge

SpecRotate == IdleInit /\ [][NextRotate]_vars

\* ------------------------------------------- uploadFile, the bytes of a part
\* The part loop of lines 802-834 byte by byte, at sizes scaled down: a part
\* size of 2 or 3 bytes stands for CHUNK_SIZE, and the read stream's
\* highWaterMark, at most CHUNK_SIZE as in Node (64 KiB), is 1 byte or more.
\* Longest file.
MaxFileBytes == 6

PartSizes == { 2, 3 }

\* Bytes a file holds; a buffer just allocated holds zeros.
FileByteValues == { 1, 2 }

Zeros(n) == [ i \in 1..n |-> 0 ]

\* Bytes createReadStream(filePath, { start, end }) reads: both ends count,
\* and the file's end cuts the range short.
StreamBytes(bytes, start, end) ==
  SubSeq(bytes, start + 1, IF end + 1 < Len(bytes) THEN end + 1 ELSE Len(bytes))

\* chunk.set(data, 0), line 811
SetAtZero(chunk, data) == data \o SubSeq(chunk, Len(data) + 1, Len(chunk))

\* The 'data' handler (809-813) over the events of one stream, each carrying
\* up to hwm bytes, up to 'end'.
RECURSIVE OnData(_, _, _)
OnData(chunk, stream, hwm) ==
  IF stream = <<>> THEN chunk
  ELSE IF Len(stream) <= hwm THEN SetAtZero(chunk, stream)
       ELSE OnData(SetAtZero(chunk, SubSeq(stream, 1, hwm)),
                   SubSeq(stream, hwm + 1, Len(stream)), hwm)

\* start, end and the chunk of lines 803-816 for part pn of a file.
ReadPart(bytes, psize, hwm, pn) ==
  LET start == (pn - 1) * psize
      end == IF start + psize < Len(bytes) THEN start + psize ELSE Len(bytes)
  IN OnData(Zeros(end - start), StreamBytes(bytes, start, end), hwm)

\* uploadFile on a file over CHUNK_SIZE, up to the session (738-800).
UploadLargeFile ==
  /\ partIdx = 0
  /\ \E psize \in PartSizes : \E n \in (psize + 1)..MaxFileBytes :
       \E bytes \in [ 1..n -> FileByteValues ], hwm \in 1..psize :
         /\ fileBytes' = bytes /\ partSize' = psize /\ highWaterMark' = hwm
  /\ partIdx' = 1
  /\ UNCHANGED << b2Vars, remote, backupVars, bsonVars, backoffVars, mainVars, rotVars, sentParts >>

\* One round of the loop, lines 802-834, and uploadPart (584-612): the body
\* of the request is the chunk, its digest header the digest of the chunk.
UploadNextPart ==
  /\ partIdx >= 1
  /\ partIdx <= (Len(fileBytes) + partSize - 1) \div partSize
  /\ LET chunk == ReadPart(fileBytes, partSize, highWaterMark, partIdx)
     IN sentParts' = Append(sentParts, [partNumber |-> partIdx, body |-> chunk,
                                        sha1 |-> [sha1of |-> chunk]])
  /\ partIdx' = partIdx + 1
  /\ UNCHANGED << b2Vars, remote, backupVars, bsonVars, backoffVars, mainVars, rotVars, fileBytes,
                  partSize, highWaterMark >>

NextPart ==
  \/ UploadLargeFile
  \/ UploadNextPart

SpecPart == IdleInit /\ [][NextPart]_vars

\* --------------------------------------------------- the backoff of uploadFile
\* private readonly maxBackoffDelay: number = 30000, line 453 (milliseconds)
MaxBackoffDelay == 30000

\* The retryDelay values a B2Service is constructed with (line 466).
RetryDelays == { DefaultRetryDelay, 20000, 40000 }

\* Math.random(), in thousandths: 0 <= Math.random() < 1.
Randoms == { 0, 1, 250, 500, 998, 999 }

Min(a, b) == IF a < b THEN a ELSE b

\* this.retryDelay * Math.pow(2, retries) * (0.5 + Math.random()), line 865,
\* in thousandths of a millisecond.
Jittered(d, k, r) == d * (2 ^ k) * (500 + r)

\* The delay without the ceiling.
BackoffDelayUncapped(d, k, r) == Jittered(d, k, r)

\* Math.min(..., this.maxBackoffDelay), lines 864-867, in thousandths of a
\* millisecond.
BackoffDelay(d, k, r) == Min(Jittered(d, k, r), MaxBackoffDelay * 1000)

\* A B2Service whose uploadFile is in its retry loop, every attempt failing
\* with a retryable error.
BackoffInit ==
  /\ ClientInit /\ bucketId = "bucket"
  /\ remote = <<>>
  /\ BackupIdle /\ dump = <<>> /\ contents = <<>>
  /\ BsonIdle
  /\ MainIdle /\ RotIdle /\ PartIdle
  /\ retryDelay \in RetryDelays
  /\ sleeps = <<>>

\* if (retries < this.maxRetries), lines 862-876: the delay is computed and
\* slept, then retries++.
BackoffSleep ==
  /\ result = NoResult /\ CanRetry(retries)
  /\ \E r \in Randoms :
       sleeps' = Append(sleeps, [retries |-> retries, random |-> r,
                                 backoffDelay |-> BackoffDelay(retryDelay, retries, r)])
  /\ retries' = retries + 1
  /\ UNCHANGED << clientVars, remote, backupVars, bsonVars, mainVars, rotVars, partVars,
                  retryDelay, pc, callVars, lastError, err, listVars, largeVars, result,
                  obs, reqs, lastResponse >>

\* else break, lines 877-886: the call rejects, nothing is slept.
BackoffBreak ==
  /\ result = NoResult /\ ~CanRetry(retries)
  /\ result' = Rejected("upload", "RetriesExhausted", lastError)
  /\ UNCHANGED << clientVars, remote, backupVars, bsonVars, mainVars, rotVars, partVars,
                  backoffVars, pc, callVars, loopVars, listVars, largeVars, obs, reqs,
                  lastResponse >>

NextBackoff ==
  \/ BackoffSleep
  \/ BackoffBreak

SpecBackoff == BackoffInit /\ [][NextBackoff]_vars

\* ------------------------------------------------------------------ claims
Expired == { "s400expired", "s401" }

Listing1 == { "list", "u_exists", "u_lookup" }

InSession == { "u_parturl", "u_part", "u_finish" }

UploadReturned == pc = "done" /\ result.op = "upload" /\ result.status = "ok"

\* ceil(size / CHUNK_SIZE), from its defining inequalities
PartCount(size) ==
  CHOOSE n \in 0..(size \div CHUNK_SIZE + 1) :
    (n - 1) * CHUNK_SIZE < size /\ size <= n * CHUNK_SIZE

\* C1: a call of uploadFile that returns after N failed attempts has made
\* exactly N + 1 attempts and returns what the successful attempt produced;
\* and the call gives up for exhausted retries only after at least maxRetries
\* failures, so N < maxRetries failures never end it.
C1_RetryThenSuccess ==
  /\ (UploadReturned /\ obs.attempts > 0) =>
       /\ obs.attempts = obs.fails + 1
       /\ result.file = remote[fileName]
       /\ result.file.fileName = fileName /\ result.file.contentLength = fileSize
       /\ (fileSize <= CHUNK_SIZE => result.file = lastResponse)
       /\ (fileSize > CHUNK_SIZE => result.file.fileId = fileId /\ finishReq.fileId = fileId)
  /\ (result.op = "upload" /\ result.error = "RetriesExhausted") => obs.fails >= maxRetries

C1_Witness ==
  /\ UploadReturned /\ obs.fails >= 1 /\ obs.fails < maxRetries
  /\ fileSize <= CHUNK_SIZE

\* C2 (as claimed): a call whose attempts all fail gives up after maxRetries
\* failures, so no call ever records more than maxRetries failed attempts.
C2_NoAttemptBeyondMaxRetries ==
  (result.op = "upload" /\ result.error = "RetriesExhausted" /\ maxRetries >= 1) =>
    /\ obs.fails = maxRetries
    /\ obs.attempts = maxRetries
    /\ result.cause = lastError

\* C3 (as claimed): a call starts at most one multi-part session, and never
\* sends a part numbered below one the remote has already accepted.
C3_OnlyFailedPartResent ==
  /\ obs.sessions <= 1
  /\ \A i \in 1..Len(parts) : parts[i].partNumber >= obs.maxPart \/ i < Len(parts)

\* C3 (amended): every attempt on a large file works in a session it started
\* itself and sends the parts from number 1 on, whatever earlier attempts of
\* the call had uploaded.
C3_RetryRestartsSession ==
  pc \in InSession =>
    /\ reqs.start = 1
    /\ obs.sessions >= 1 /\ obs.sessions <= obs.attempts
    /\ partNumber = Len(parts) + 1
    /\ \A i \in 1..Len(parts) : parts[i].partNumber = i
    /\ reqs.part >= Len(parts)

C3_Witness ==
  /\ pc = "u_parturl" /\ obs.sessions = 2 /\ obs.maxPart >= 2
  /\ Len(parts) = 1 /\ parts[1].partNumber = 1

\* C4: the parts a session has accepted are numbered 1, 2, 3, ... in the
\* order they were sent; the finish request is sent only when all parts of the
\* file have been accepted, for that session, and lists the digest of part i
\* at position i.
C4_PartsAscendingThenFinish ==
  /\ \A i \in 1..Len(parts) : parts[i].partNumber = i
  /\ reqs.finish > 0 =>
       /\ Len(parts) = PartCount(fileSize)
       /\ reqs.finish = 1 /\ reqs.part = Len(parts)
       /\ finishReq.fileId = fileId
       /\ Len(finishReq.partSha1Array) = Len(parts)
       /\ \A i \in 1..Len(parts) : finishReq.partSha1Array[i] = parts[i].contentSha1

C4_Witness == reqs.finish = 1 /\ Len(parts) = 3 /\ pc = "done"

\* C5: when uploadFile returns for a file above CHUNK_SIZE, the session it
\* finished holds exactly ceil(S / P) parts numbered 1..n, all of P bytes but
\* the last, which has S - (n - 1) * P, and was finished with n digests; 250
\* MiB gives 100, 100 and 50 MiB.
C5_PartSizes ==
  (UploadReturned /\ obs.attempts > 0 /\ fileSize > CHUNK_SIZE) =>
    LET n == PartCount(fileSize)
    IN /\ Len(parts) = n
       /\ \A i \in 1..n :
            /\ parts[i].partNumber = i
            /\ parts[i].contentLength =
                 IF i < n THEN CHUNK_SIZE ELSE fileSize - (n - 1) * CHUNK_SIZE
       /\ Len(finishReq.partSha1Array) = n
       /\ fileSize = 250 * MiB =>
            [ i \in 1..n |-> parts[i].contentLength ] = << 100 * MiB, 100 * MiB, 50 * MiB >>

C5_Witness == UploadReturned /\ fileSize = 250 * MiB /\ Len(parts) = 3

\* C6: when an object of that exact name is stored remotely as uploadFile is
\* called, the call issues no upload-URL, upload, session-start, part or
\* finish request, and if it returns it returns the stored object's metadata;
\* it can fail only for a failed list request or a client not authenticated.
C6_ExistingObjectSkipped ==
  (result.op \in { "none", "upload" } /\ existed # NoFile) =>
    /\ obs.attempts = 0 /\ obs.sessions = 0 /\ reqs = NoReqs
    /\ remote[fileName] = existed
    /\ pc = "done" =>
         \/ result.status = "ok" /\ result.file = existed
         \/ result.error \in { "ListFailed", "NotAuthenticated" }

C6_Witness ==
  /\ UploadReturned /\ existed # NoFile /\ result.file = existed
  /\ Len(files) >= 2

\* C7 (as claimed): a call re-authenticates at most once, and every call that
\* met an expired-token or unauthorized response has re-authenticated.
C7_SingleReauthRetry ==
  pc # "idle" =>
    /\ obs.auth <= 1
    /\ (result.status = "error" /\ result.cause \in Expired) => obs.auth >= 1

\* C7 (amended): in uploadFile every expired-token or unauthorized response
\* is followed by one re-authentication, and when that succeeds the attempt is
\* retried as after any other retryable failure, as long as retries remain, so
\* one call can re-authenticate more than once; listExistingFiles never
\* re-authenticates.
C7_ReauthOnEveryExpiry ==
  [][ /\ (pc = "u_catch" /\ err \in Expired) =>
           /\ obs'.auth = obs.auth + 1
           /\ \/ pc' = "u_stat" /\ retries' = retries + 1 /\ retries < maxRetries
              \/ pc' = "done" /\ result'.error = "B2Error"
              \/ pc' = "done" /\ result'.error = "RetriesExhausted" /\ retries = maxRetries
      /\ (pc = "u_catch" /\ err \notin Expired) => obs'.auth = obs.auth
      /\ pc \in Listing1 => obs'.auth = obs.auth /\ authToken' = authToken
    ]_vars

C7_Witness == pc = "u_stat" /\ obs.auth = 2 /\ retries = 2 /\ lastError \in Expired

\* C8: an attempt that failed with status 400 and code bad_request ends the
\* call at once with an error: no sleep, no further attempt and no further
\* request follow, however many retries remain.
C8_BadRequestAborts ==
  [][ (pc = "u_catch" /\ err = "s400bad") =>
        /\ pc' = "done"
        /\ result'.status = "error" /\ result'.cause = "s400bad"
        /\ obs'.sleeps = obs.sleeps /\ obs'.attempts = obs.attempts
        /\ obs'.auth = obs.auth
        /\ retries' = retries /\ reqs' = reqs
    ]_vars

C8_Witness ==
  /\ pc = "done" /\ result.error = "NotRetried" /\ result.cause = "s400bad"
  /\ retries = 1 /\ maxRetries = 2

\* The authenticated state: token, both URLs and the bucket id are all set.
AuthenticatedState ==
  authToken # Null /\ apiUrl # Null /\ downloadUrl # Null /\ bucketId # ""

\* C9: while the client is not authenticated no call gets past its entry:
\* uploadFile and listExistingFiles end with the not-authenticated error and
\* no request has been issued.
C9_NotAuthenticatedRejected ==
  ~AuthenticatedState =>
    /\ pc \in { "idle", "done" }
    /\ pc = "done" =>
         /\ result.op \in { "upload", "list" }
         /\ result.status = "error" /\ result.error = "NotAuthenticated"
         /\ obs = NoObs /\ reqs = NoReqs

C9_Witness ==
  /\ pc = "done" /\ result.op = "upload" /\ result.error = "NotAuthenticated"
  /\ authToken # Null /\ ~AuthenticatedState

\* C10: the first list request starts at null and each later one at the
\* cursor of the response before it; requests go on exactly while responses
\* carry a cursor; and listExistingFiles returns every entry of the remote
\* listing once, in the remote's order.
C10_PagesConcatenated ==
  /\ \A i \in 1..Len(starts) :
       starts[i] = IF i = 1 THEN NoName ELSE cursors[i - 1]
  /\ \A i \in 1..(Len(cursors) - 1) : cursors[i] # NoName
  /\ (pc \in Listing1 /\ cursors # <<>>) => cursors[Len(cursors)] # NoName
  /\ (pc = "done" /\ result.op = "list" /\ result.status = "ok") =>
       LET all == Listing(remote, prefix)
       IN /\ cursors[Len(cursors)] = NoName
          /\ obs.list = Len(starts)
          /\ Len(result.files) = Len(all)
          /\ \A i \in 1..Len(all) : result.files[i] = Entry(remote, all[i])
          /\ \A i, j \in 1..Len(result.files) :
               result.files[i].fileName = result.files[j].fileName => i = j

C10_Witness ==
  /\ pc = "done" /\ result.op = "list" /\ result.status = "ok"
  /\ Len(starts) = 2 /\ Len(result.files) = 4

\* C11: a listExistingFiles call in which some page request failed, the first
\* or a later one, has ended rejected with the list error and carries no
\* file, whatever the pages before the failure held; a call that resolved had
\* every one of its requests answered.
C11_ListFailureDiscardsPages ==
  (pc = "done" /\ result.op = "list" /\ result.error # "NotAuthenticated") =>
    /\ Len(starts) > Len(cursors) =>
         /\ result.status = "error" /\ result.error = "ListFailed"
         /\ result.cause \in Failures
         /\ result.files = <<>> /\ result.file = NoFile
    /\ result.status = "ok" => Len(starts) = Len(cursors)

C11_Witness ==
  /\ pc = "done" /\ result.op = "list" /\ result.error = "ListFailed"
  /\ Len(cursors) = 1 /\ Len(files) = MaxFileCount /\ result.files = <<>>

\* A local file name has no counterpart in the bucket: no object of exactly
\* that name, and no object whose name begins with the base name and a slash.
Unmatched(name) ==
  LET folder == SubSeq(name, 1, Len(name) - 1) \o << Slash >>
  IN /\ name \notin Stored(remote)
     /\ ~\E n \in Stored(remote) : IsPrefix(folder, n)

C13_FailedRunResumed ==
  (bpc = "idle" /\ outcome.status = "ok") =>
    \A b \in halted : AllChunksRemote(remote, b)

\* C20: a run in which uploadFile threw has ended rejected with that call as
\* its last upload call, though chunks or files were still to come; every
\* object the run's earlier calls uploaded is in the bucket.
C20_UploadFailureHaltsRun ==
  (outcome.status = "error" /\ outcome.cause = "uploadFile") =>
    /\ bpc = "idle" /\ outcome.error = "BackupError"
    /\ Len(uploadCalls) = outcome.at
    /\ \A i \in 1..(outcome.at - 1) : remote[uploadCalls[i]] # NoFile

C20_Witness ==
  /\ bpc = "idle" /\ outcome.cause = "uploadFile" /\ outcome.at >= 2
  /\ fileIdx < Len(newFiles) /\ chunkIdx < Len(chunkPaths)
  /\ remote[uploadCalls[outcome.at]] = NoFile

\* Line feeds in a sequence of bytes.
NLCount(bytes) == Cardinality({ i \in 1..Len(bytes) : bytes[i] = NL })

\* Documents of the input that lie wholly within its first n bytes.
WholeWithin(n) ==
  Cardinality({ k \in 1..Len(source.records) :
                  Len(Flatten(SubSeq(source.records, 1, k))) <= n })

\* C14: on an input of valid documents only, however it is cut into read
\* buffers, the transform never fails; the lines pushed so far are those of
\* the documents wholly read so far, in input order, each holding one line
\* feed, its last byte; and at the end there is one line per document. What
\* is pushed depends on the bytes read alone, so it is the same for every
\* split and every run.
C14_OneLinePerRecord ==
  (source.kind = "none" /\ rstate # "errored") =>
    /\ tstate # "errored" /\ terror = Null /\ escaped = Null
    /\ Len(pushed) = WholeWithin(offset)
    /\ \A i \in 1..Len(pushed) :
         /\ pushed[i] = Line(Deserialize(source.records[i]))
         /\ NLCount(pushed[i]) = 1 /\ pushed[i][Len(pushed[i])] = NL
    /\ tstate = "ended" => Len(pushed) = Len(source.records)
    /\ Len(buffer) = offset - Len(Flatten(SubSeq(source.records, 1, Len(pushed))))

C14_Witness ==
  /\ source.kind = "none" /\ source.records = << <<7, 0, 0, 0, 1, 10, 0>>, <<5, 0, 0, 0, 0>> >>
  /\ Len(pushed) = 1 /\ Len(buffer) = 2 /\ rstate = "open"

\* C15: an input that ends with a proper prefix of a document never gets
\* through: the transform does not end, the promise does not resolve, and
\* once the input is at its end the flush has failed with the incomplete-
\* document error; the transform fails no earlier and with no other error.
C15_TruncatedFails ==
  source.kind = "truncated" =>
    /\ tstate # "ended" /\ cstate # "finished" /\ promise # "resolved"
    /\ tstate = "errored" =>
         terror = "Incomplete" /\ offset = Len(InputBytes) /\ rstate = "ended"
    /\ rstate = "ended" => tstate = "errored"

C15_Witness ==
  /\ source.kind = "truncated" /\ terror = "Incomplete"
  /\ Len(source.tail) < 4 /\ Len(source.records) = MaxRecords

\* C16: with a length field out of range at a document boundary, the
\* transform has failed with the invalid-size error as soon as the four
\* bytes of the field are read, after pushing the line of every document
\* before it; it never ends and the promise never resolves.
C16_BadLengthFails ==
  source.kind = "badLength" =>
    /\ tstate # "ended" /\ cstate # "finished" /\ promise # "resolved"
    /\ tstate = "errored" =>
         terror = "InvalidSize" /\ Len(pushed) = Len(source.records)
    /\ offset >= Len(Flatten(source.records)) + 4 => tstate = "errored"

C16_Witness ==
  /\ source.kind = "badLength" /\ terror = "InvalidSize"
  /\ source.tail = <<1, 0, 0, 1>> /\ Len(source.records) = MaxRecords
  /\ position > 0 /\ Len(buffer) = position + 4

\* C17 (as claimed): when the transform has failed or the file could not be
\* read, the promise is rejected and no error went unhandled.
C17_FailureRejectsPromise ==
  (tstate = "errored" \/ rstate = "errored") => (promise = "rejected" /\ escaped = Null)

\* C18: every chunk file but the last written holds at least chunkSize
\* bytes.
C18_ClosedChunksReachThreshold ==
  \A i \in 1..(Len(chunkFiles) - 1) : Len(chunkFiles[i]) >= chunkSize

C18_Witness ==
  /\ cstate = "finished" /\ Len(chunkFiles) = 2 /\ chunkSize = 5
  /\ Len(chunkFiles[2]) < chunkSize

\* C19: each chunk file holds a run of whole consecutive lines of the
\* transform, the files in index order hold the lines consumed so far with
\* none lost, repeated or reordered, and when the promise resolves they hold
\* every line pushed, under the paths part1, part2, ...
C19_WholeRecordsInOrder ==
  /\ Flatten(chunkFiles) = Flatten(SubSeq(pushed, 1, delivered))
  /\ \A i \in 1..Len(chunkFiles) :
       \E a \in 1..Len(pushed) : \E b \in a..Len(pushed) :
         chunkFiles[i] = Flatten(SubSeq(pushed, a, b))
  /\ Len(chunkFilePaths) = Len(chunkFiles)
  /\ \A i \in 1..Len(chunkFilePaths) : chunkFilePaths[i] = ChunkName(InputBase, i)
  /\ promise = "resolved" => Flatten(chunkFiles) = Flatten(pushed)

C19_Witness ==
  /\ promise = "resolved" /\ Len(chunkFiles) = 2 /\ chunkSize = 1
  /\ Len(pushed) = 2 /\ pushed[1] # pushed[2]

\* C21: a run that has got through every file of newFiles resolves, whether
\* the emptying of dumpPath succeeded or failed.
C21_CleanupFailureIgnored ==
  [][ (bpc = "file" /\ fileIdx > Len(newFiles)) =>
        (bpc' = "idle" /\ outcome'.status = "ok" /\ remote' = remote) ]_vars

C21_Witness ==
  /\ bpc = "idle" /\ outcome.status = "ok" /\ dumpDirs > 0
  /\ Len(uploadCalls) >= 2 /\ fileIdx = Len(newFiles) + 1

\* C22: while the process runs, at most one performBackup call is in
\* progress, and a call that is uploading still has its chunk files.
C22_AtMostOneRun ==
  exitCode = NoExit =>
    /\ Cardinality(InProgress) <= 1
    /\ \A j \in InProgress : jobs[j].stage = "upload" => j \in tempDir

\* C23: once a call of authenticate has rejected, the client is not in the
\* authenticated state, whatever its state before the call.
C23_RejectedLeavesUnauthenticated ==
  (pc = "idle" /\ result.op = "authenticate" /\ result.status = "error") =>
    ~AuthenticatedState

\* C24: once a call of authenticate has resolved, isAuthenticated() is true,
\* so that the token and both URLs are set and none of getAuthHeaders,
\* getApiUrl and getDownloadUrl throws.
C24_ResolvedIsAuthenticated ==
  (pc = "idle" /\ result.op = "authenticate" /\ result.status = "ok") =>
    /\ AuthenticatedState
    /\ authToken \in Tokens /\ apiUrl = "apiUrl" /\ downloadUrl = "downloadUrl"

\* C25: an attempt of uploadFile asks for an upload URL and posts the file,
\* starting no session, exactly when the file has at most 100 MiB, a file of
\* exactly 100 MiB included; a larger file goes through a session and never
\* through the single-shot requests; a call that returns has issued, in its
\* last attempt, one upload-URL request and one upload, or one session start
\* and one finish.
C25_SingleShotUpTo100MiB ==
  /\ (reqs.uploadUrl > 0 \/ reqs.upload > 0) =>
       (fileSize <= 100 * MiB /\ reqs.start = 0 /\ reqs.partUrl = 0 /\ reqs.part = 0)
  /\ (reqs.start > 0 \/ reqs.partUrl > 0 \/ reqs.part > 0 \/ reqs.finish > 0) =>
       (fileSize > 100 * MiB /\ reqs.uploadUrl = 0 /\ reqs.upload = 0)
  /\ (UploadReturned /\ existed = NoFile /\ fileSize <= 100 * MiB) =>
       (reqs.uploadUrl = 1 /\ reqs.upload = 1)
  /\ (UploadReturned /\ existed = NoFile /\ fileSize > 100 * MiB) =>
       (reqs.start = 1 /\ reqs.finish = 1)

C25_Witness ==
  /\ UploadReturned /\ existed = NoFile /\ fileSize = 100 * MiB
  /\ reqs.uploadUrl = 1 /\ reqs.upload = 1 /\ reqs.start = 0 /\ obs.sessions = 0

\* C26: a performBackup call, the initial one or one the timer made, that has
\* failed with the BackupError performIncrementalBackup throws has ended the
\* process with status 1.
C26_BackupErrorExits1 ==
  \A j \in 1..Len(jobs) :
    (jobs[j].stage = "failed" /\ jobs[j].error = "services/backup.service.BackupError") =>
      exitCode = 1

\* C27: when rotateBackups has resolved, the entries gone from the directory
\* are the .gz files with at least maxFiles .gz files newer than them (of two
\* equally old ones, the one readdir listed first counts as newer) and the
\* .gz files more than maxAgeDays days old, and nothing else.
C27_RotationDeletesExactly ==
  rotResult = "ok" =>
    LET gz == { i \in 1..Len(dir) : dir[i].gz }
        Newer(i) == { g \in gz : \/ dir[g].age < dir[i].age
                                 \/ dir[g].age = dir[i].age /\ g < i }
        beyond == { i \in gz : Cardinality(Newer(i)) >= policy.maxFiles }
        old == { i \in gz : dir[i].age > policy.maxAgeDays * 24 * 60 * 60 * 1000 }
    IN (1..Len(dir)) \ onDisk = beyond \cup old

C27_Witness ==
  /\ rotResult = "ok" /\ policy.maxAgeDays = 1
  /\ \E i, j \in onDisk :
       /\ ~dir[i].gz /\ dir[i].age = DayMs + 1
       /\ dir[j].gz /\ dir[j].age = DayMs
  /\ Len(unlinked) = 1 /\ unlinked[1] \notin onDisk
  /\ dir[unlinked[1]].age = DayMs + 1

\* C28: the body of the i-th part request is the file's bytes from offset
\* (i - 1) * P up to, not including, min(i * P, S), its digest is the digest of
\* those bytes, and so the bodies in order make up the file.
C28_PartIsFileRange ==
  \A i \in 1..Len(sentParts) :
    LET S == Len(fileBytes)
        range == SubSeq(fileBytes, (i - 1) * partSize + 1,
                        IF i * partSize < S THEN i * partSize ELSE S)
    IN /\ sentParts[i].partNumber = i
       /\ sentParts[i].body = range
       /\ sentParts[i].sha1 = [sha1of |-> range]

\* C29: when a call of uploadFile has returned or failed, every multi-part
\* session it started, in whichever attempt, has been finished.
C29_NoSessionOutlivesCall ==
  (pc = "done" /\ result.op = "upload") => obs.finished = obs.sessions

\* C30: the N-th chunk file created is named baseName.jsonl.partN, N counting
\* from 1 without a gap; a file is created only for a line to be written to
\* it; the promise resolves with the paths of the files created, in that
\* order; and an input without records resolves with no path and no file.
C30_ChunkNamesAscending ==
  /\ \A i \in 1..Len(chunkFilePaths) : chunkFilePaths[i] = InputBase \o << PartSuffix(i) >>
  /\ currentChunk = Len(chunkFilePaths)
  /\ \A i \in 1..Len(chunkFiles) : chunkFiles[i] # <<>>
  /\ promise = "resolved" =>
       /\ Len(chunkFilePaths) = Len(chunkFiles)
       /\ source.records = <<>> => (chunkFilePaths = <<>> /\ chunkFiles = <<>>)

C30_Witness ==
  /\ promise = "resolved" /\ Len(chunkFiles) = 2 /\ Len(source.records) = 2
  /\ chunkFilePaths = << InputBase \o << PartSuffix(1) >>, InputBase \o << PartSuffix(2) >> >>

\* C31: chunk files leave dumpPath/temp_jsonl only in the cleanup of a call
\* whose uploads have all succeeded, a call that fails removes none, and the
\* files removed belong to no call that has yet to upload them.
C31_DeletedOnlyAfterUpload ==
  [][ /\ tempDir' # tempDir =>
           \/ tempDir \subseteq tempDir'
           \/ \E j \in InProgress : jobs[j].stage = "cleanup" /\ jobs'[j].stage = "done"
      /\ (\E j \in InProgress : jobs'[j].stage = "failed") => tempDir' = tempDir
      /\ \A j \in tempDir \ tempDir' : jobs[j].stage # "upload" ]_vars

\* C38: no entry is handed to unlink twice in one call of rotateBackups, and
\* a call in which every unlink of an entry still there succeeds resolves.
C38_UnlinkedAtMostOnce ==
  /\ \A a, b \in 1..Len(unlinked) : unlinked[a] = unlinked[b] => a = b
  /\ (rotResult = "error" /\ fileStats # <<>>) =>
       \E x \in Range(unlinked) : x \in onDisk

\* C39: between _transform calls of a transform that has not failed, position
\* is 0 and the buffer holds less than one record: fewer than 4 bytes, or a
\* length field within 5..16 MiB and fewer bytes than it declares.
C39_BufferIsProperPrefix ==
  tstate = "open" =>
    /\ position = 0
    /\ \/ Len(buffer) < 4
       \/ LET size == ReadInt32LE(buffer, 0)
          IN size >= 5 /\ size <= 16 * 1024 * 1024 /\ Len(buffer) < size

C39_Witness ==
  /\ tstate = "open" /\ Len(pushed) >= 1 /\ Len(buffer) >= 4
  /\ Len(buffer) < ReadInt32LE(buffer, 0) /\ offset < Len(InputBytes)

\* C36: a re-authentication that fails inside uploadFile ends the call in the
\* same step with the authentication error: no sleep, no retry counted, no
\* further attempt, however many retries remain.
C36_ReauthFailureIsFatal ==
  [][ obs'.authFails > obs.authFails =>
        /\ pc = "u_catch" /\ err \in Expired
        /\ pc' = "done"
        /\ result'.status = "error" /\ result'.error = "B2Error"
        /\ result'.cause = "authenticate"
        /\ obs'.sleeps = obs.sleeps /\ obs'.attempts = obs.attempts
        /\ retries' = retries ]_vars

C36_Witness ==
  /\ pc = "done" /\ result.cause = "authenticate" /\ obs.authFails = 1
  /\ retries = 1 /\ maxRetries = 2 /\ obs.auth = 2 /\ obs.attempts = 2

\* C37: in one call of uploadFile the remote stores the object at most once,
\* also when it stored it on a request whose response never arrived.
C37_StoredAtMostOnce ==
  pc # "idle" => obs.accepted <= 1

\* C34: within one run, two selected source files that lie in different
\* directories and share a base name each end the run with their own
\* transcoded content stored remotely: every chunk object of each holds the
\* bytes this run uploaded from that file's directory.
C34_EachFileStoresOwnContent ==
  (bpc = "idle" /\ outcome = RunResolved) =>
    \A i, j \in 1..Len(newFiles) :
      (newFiles[i].name = newFiles[j].name /\ newFiles[i].path[1] # newFiles[j].path[1]) =>
        \A k \in 1..dump[newFiles[i].name] :
          contents[RemotePath(BaseName(newFiles[i].name), k)] = ContentOf(newFiles[i], runs)

\* C35: a later run whose dump holds a source file under a base name an
\* earlier run uploaded, the content changed since, uploads the changed
\* content: when the run resolves, no chunk object of a file of the newest
\* dump directory still holds an earlier run's bytes.
C35_LaterRunUploadsChangedContent ==
  (bpc = "idle" /\ outcome = RunResolved /\ Len(localFiles) > 0) =>
    LET latest == localFiles[Len(localFiles)].path[1]
    IN \A i \in 1..Len(localFiles) :
         localFiles[i].path[1] = latest =>
           \A k \in 1..dump[localFiles[i].name] :
             LET c == contents[RemotePath(BaseName(localFiles[i].name), k)]
             IN ~(c.run >= 1 /\ c.run < runs)

\* C33: when convertBsonToJsonlChunks resolves, every byte written to every
\* returned chunk file has been written out, so that a stat or a read of the
\* file taken right after sees the complete chunk.
C33_ResolvedMeansFlushed ==
  promise = "resolved" =>
    \A i \in 1..Len(chunkFiles) : synced[i] = Len(chunkFiles[i])

\* C32 as stated: the delay slept after failed attempt k lies between 0.5 and
\* 1.5 times retryDelay * 2^k and does not exceed the maximum backoff delay.
C32_WithinJitterAndCeiling ==
  \A i \in 1..Len(sleeps) :
    LET k == sleeps[i].retries
        delay == sleeps[i].backoffDelay
    IN /\ k = i - 1
       /\ delay >= retryDelay * (2 ^ k) * 500
       /\ delay <= retryDelay * (2 ^ k) * 1500
       /\ delay <= MaxBackoffDelay * 1000

\* C32, amended: the delay slept after failed attempt k is the smaller of the
\* jittered delay and the maximum backoff delay: it never exceeds the maximum
\* or 1.5 times retryDelay * 2^k, and it is below 0.5 times retryDelay * 2^k
\* only when it is the maximum itself.
C32_JitterCappedAtCeiling ==
  \A i \in 1..Len(sleeps) :
    LET k == sleeps[i].retries
        delay == sleeps[i].backoffDelay
    IN /\ k = i - 1 /\ k < maxRetries
       /\ delay <= MaxBackoffDelay * 1000
       /\ delay < retryDelay * (2 ^ k) * 1500
       /\ \/ delay >= retryDelay * (2 ^ k) * 500
          \/ delay = MaxBackoffDelay * 1000

\* A call that slept a jittered delay first and the maximum next, the maximum
\* being below half the doubled base delay.
C32_Witness ==
  /\ Len(sleeps) = 2
  /\ sleeps[1].backoffDelay < MaxBackoffDelay * 1000
  /\ sleeps[1].backoffDelay > retryDelay * 500
  /\ sleeps[2].backoffDelay = MaxBackoffDelay * 1000
  /\ sleeps[2].backoffDelay < retryDelay * 2 * 500

====
